---- MODULE Spec2Model ----
(***************************************************************************)
(* VirMet wolfpack (src/virmet/wolfpack.py): the read-classification       *)
(* pipeline hunter -> victor (one round per contaminant) -> viral_blast -> *)
(* cleaning_up, sequenced by main over the sample directories.             *)
(*                                                                         *)
(* A file name is a tuple of strings: the extension first, then the pieces *)
(* of the stem in order ("_" is a piece of its own, a decimal digit is a   *)
(* piece of its own), so that good_bt_ref.sam is                           *)
(* <<"sam","good","_","bt","_","ref">> and splitted07.fastq is             *)
(* <<"fastq","splitted","0","7">>.  A sample directory is a function from  *)
(* file names to contents.  A read set is a sequence of read identifiers   *)
(* (naturals), an alignment file a sequence of read identifiers (one per   *)
(* record), a hit table a sequence of rows <<qseqid, pident, qcovs>>, and  *)
(* stats.tsv a sequence of lines <<key, count>>.                           *)
(***************************************************************************)
EXTENDS Integers, Sequences, FiniteSets, TLC

VARIABLES
    cpu,          \* os.cpu_count() of the machine
    inputs,       \* all_fastq_files: the sample directory each file maps to
    pc,           \* position of main
    i,            \* index of the current loop of main (file or sample)
    c,            \* index into contaminant_db of the decontamination loop
    s_dirs,       \* main: the list hunter's return values are appended to
    cont_reads,   \* main: input file name of the current round
    decont_reads, \* main: last return value of victor, Unbound before
    fs,           \* the files of every sample directory
    hun,          \* hunter's locals at its last return or failure, per dir
    vic,          \* victor's locals at its last return, per dir
    vb,           \* viral_blast's locals at its last return or failure
    cu,           \* cleaning_up's locals at its last return or failure
    log           \* logging.error / warnings.warn records

vars == <<cpu, inputs, pc, i, c, s_dirs, cont_reads, decont_reads, fs,
          hun, vic, vb, cu, log>>

-----------------------------------------------------------------------------
(* Bounds of the model.                                                    *)

MaxFiles == 2      \* number of discovered input files
MaxRaw == 25       \* records of the largest input file
MaxMarked == 2     \* reads 1..MaxMarked are the ones the tools may reject
MaxHits == 2       \* hit rows the search reports for one query
MaxCpu == 17       \* largest os.cpu_count()
MaxRows == 4       \* rows of the hit tables handed to the merge alone

(* Program constants.                                                      *)

HunterProcCap == 16
BlastProcCap == 12
blast_cov_threshold == 75
blast_ident_threshold == 75

Dirs == {"A_S1", "B_S2"}
DirIndex(d) == IF d = "A_S1" THEN 1 ELSE 2

(* os.cpu_count(): a small machine and one above the caps.                 *)
CpuCounts == {4, MaxCpu}

(* Record counts of an input file.                                         *)
RawSizes == {0, 2, 16} \cup (MaxRaw - 2)..MaxRaw

(* Percent identity and query coverage values the search may report.       *)
Scores == {75, 90}

Unbound == <<"<unbound>">>

-----------------------------------------------------------------------------
(* Generic helpers.                                                        *)

Min(a, b) == IF a <= b THEN a ELSE b
Max(a, b) == IF a >= b THEN a ELSE b

Range(s) == {s[k] : k \in DOMAIN s}

RECURSIVE SumSeq(_)
SumSeq(s) == IF s = <<>> THEN 0 ELSE Head(s) + SumSeq(Tail(s))

RECURSIVE Flatten(_)
Flatten(ss) == IF ss = <<>> THEN <<>> ELSE Head(ss) \o Flatten(Tail(ss))

Keep(s, S) == LET In(x) == x \in S IN SelectSeq(s, In)
Drop(s, S) == LET Out(x) == x \notin S IN SelectSeq(s, Out)

\* F applied to the value of v
Bind(v, F(_)) == CHOOSE r \in {F(x) : x \in {v}} : TRUE

EmptyDir == [n \in {} |-> <<>>]
Put(f, name, content) ==
    [n \in DOMAIN f \cup {name} |-> IF n = name THEN content ELSE f[n]]
Del(f, names) == [n \in DOMAIN f \ names |-> f[n]]
Exists(f, name) == name \in DOMAIN f

-----------------------------------------------------------------------------
(* Number formatting.                                                      *)

DigitChars == <<"0", "1", "2", "3", "4", "5", "6", "7", "8", "9">>

\* '%d' % n
RECURSIVE Dec(_)
Dec(n) == IF n < 10 THEN <<DigitChars[n + 1]>>
          ELSE Dec(n \div 10) \o <<DigitChars[(n % 10) + 1]>>

RECURSIVE ZeroPad(_, _)
ZeroPad(w, ds) == IF Len(ds) >= w THEN ds ELSE ZeroPad(w, <<"0">> \o ds)

\* 'splitted%0.2d.fastq' % i: at least two digits
Fmt02d(n) == ZeroPad(2, Dec(n))

\* seq -w 0 last: every number padded to the width of the widest
SeqW(last) == IF last < 0 THEN <<>>
              ELSE [k \in 1..(last + 1) |-> ZeroPad(Len(Dec(last)), Dec(k - 1))]

\* seq 0 last
SeqPlain(last) == IF last < 0 THEN <<>> ELSE [k \in 1..(last + 1) |-> Dec(k - 1)]

-----------------------------------------------------------------------------
(* File names and glob patterns.                                           *)

StatsTsv == <<"tsv", "stats">>
GoodFastq == <<"fastq", "good">>
BadFastq == <<"fastq", "bad">>
PrinseqLog == <<"log", "prinseq">>
PrinseqErr == <<"err", "prinseq">>
Splitted(t) == <<"fastq", "splitted">> \o t
GoodShard(t) == <<"fastq", "good">> \o t
BadShard(t) == <<"fastq", "bad">> \o t
LogShard(t) == <<"log", "prinseq">> \o t

\* pieces that are one character long
OneChar(p) == p \in Range(DigitChars) \cup {"_"}
CharOrd(p) == IF p \in Range(DigitChars)
              THEN CHOOSE k \in 0..9 : DigitChars[k + 1] = p
              ELSE 10

\* glob('<base>??.<ext>'): the stem is base followed by exactly two characters
GlobTwo(f, ext, base) ==
    {n \in DOMAIN f : /\ Len(n) = 4
                      /\ n[1] = ext /\ n[2] = base
                      /\ OneChar(n[3]) /\ OneChar(n[4])}

\* the shell expands a pattern in sorted order
Before(n, o) ==
    \/ CharOrd(n[3]) < CharOrd(o[3])
    \/ CharOrd(n[3]) = CharOrd(o[3]) /\ CharOrd(n[4]) < CharOrd(o[4])
SortedNames(S) ==
    [k \in 1..Cardinality(S) |->
        CHOOSE n \in S : Cardinality({o \in S : Before(o, n)}) = k - 1]

\* cat <pattern> > out
Cat(f, names) == Flatten([k \in DOMAIN names |-> f[names[k]]])

\* the shell pattern splitted*fastq
GlobSplitted(f) == {n \in DOMAIN f : Len(n) >= 2 /\ n[1] = "fastq" /\ n[2] = "splitted"}

-----------------------------------------------------------------------------
(* The ledger stats.tsv.                                                   *)

Line(key, n) == <<key, n>>
Keys(ledger) == [k \in DOMAIN ledger |-> ledger[k][1]]
Ledger(f) == IF Exists(f, StatsTsv) THEN f[StatsTsv] ELSE <<>>
\* a write that opens stats.tsv afresh
TruncatingLine(f, key, n) == Put(f, StatsTsv, <<Line(key, n)>>)
\* open('stats.tsv', 'a') followed by write
AppendLine(f, key, n) == Put(f, StatsTsv, Append(Ledger(f), Line(key, n)))
\* the value of the first line with this key
Value(ledger, key) ==
    ledger[CHOOSE k \in DOMAIN ledger :
              ledger[k][1] = key /\ \A j \in 1..(k - 1) : ledger[j][1] # key][2]
HasKey(ledger, key) == \E k \in DOMAIN ledger : ledger[k][1] = key

-----------------------------------------------------------------------------
(* The process runner (virmet.common.run_child is not part of the sources; *)
(* its contract is that of the specification: a nonzero exit status of the *)
(* external command is raised as an error to the caller).                  *)

RunChildRaises == TRUE

-----------------------------------------------------------------------------
(* hunter(fq_file)                                                         *)

\* a worker count without the cap
HunterNProcNoCap(ncpu) == ncpu
\* n_proc = min(os.cpu_count(), 16)
HunterNProc(ncpu) == Min(ncpu, HunterProcCap)

\* max_reads_per_file = int(n_reads / n_proc) + 1
MaxReadsPerFile(n_reads, n_proc) == (n_reads \div n_proc) + 1

CeilDiv(a, b) == (a + b - 1) \div b

\* the difference taken the other way round
TrimmedNegated(n_reads, long_reads) == long_reads - n_reads
\* short = n_reads - long_reads
TrimmedTooShort(n_reads, long_reads) == n_reads - long_reads

\* split -l <4 * m> : consecutive pieces of at most m records, none empty
Split(reads, m) ==
    [k \in 1..CeilDiv(Len(reads), m) |->
        SubSeq(reads, (k - 1) * m + 1, Min(k * m, Len(reads)))]

\* the renaming loop: the k-th piece in sorted order becomes splitted<%0.2d>
RenamedShards(f, shards) ==
    [n \in DOMAIN f \cup {Splitted(Fmt02d(k - 1)) : k \in DOMAIN shards} |->
        IF \E k \in DOMAIN shards : n = Splitted(Fmt02d(k - 1))
        THEN shards[CHOOSE k \in DOMAIN shards : n = Splitted(Fmt02d(k - 1))]
        ELSE f[n]]

\* the arguments xargs substitutes for {}: seq -w 0 <n_splitted - 1>
WorkerTokens(n_splitted) == SeqW(n_splitted - 1)

(* One prinseq worker on the shard named by token t.  verdict says what    *)
(* the filter makes of each read it may reject; dev is the amount by which *)
(* the low-complexity count of the log deviates from the reads rejected.   *)
(* Output files are created when the first record is written to them; the  *)
(* worker leaves its token in prinseq.err, where its messages go.          *)
PrinseqWorker(f, t, verdict, dev) ==
    LET shard == f[Splitted(t)]
        Rejected(why) == {r \in DOMAIN verdict : verdict[r] = why}
        good == Drop(shard, Rejected("lc") \cup Rejected("mq"))
        bad == Keep(shard, Rejected("lc") \cup Rejected("mq"))
        lc == Len(Keep(shard, Rejected("lc")))
        mq == Len(Keep(shard, Rejected("mq")))
        f1 == IF good # <<>> THEN Put(f, GoodShard(t), good) ELSE f
        f2 == IF bad # <<>> THEN Put(f1, BadShard(t), bad) ELSE f1
        f3 == Put(f2, LogShard(t), <<<<Max(lc + dev, 0), mq>>>>)
    IN Put(f3, PrinseqErr, Append(f[PrinseqErr], t))

\* the files the worker of token t writes: -out_good, -out_bad, -log and the
\* standard output and error, which xargs hands down from > ./prinseq.err 2>&1
HunterWorkerWrites(t) == {GoodShard(t), BadShard(t), LogShard(t), PrinseqErr}

\* xargs runs one worker per token; a worker whose input is missing fails
RECURSIVE RunWorkers(_, _, _, _)
RunWorkers(f, tokens, verdict, dev) ==
    IF tokens = <<>> THEN f
    ELSE Bind(IF Exists(f, Splitted(Head(tokens)))
              THEN PrinseqWorker(f, Head(tokens), verdict, dev)
              ELSE f,
              LAMBDA f1 : RunWorkers(f1, Tail(tokens), verdict, 0))

\* if len(glob(pattern)): cat pattern > out; rm pattern
Recombine(f, ext, base) ==
    LET names == GlobTwo(f, ext, base)
    IN IF names = {} THEN f
       ELSE Del(Put(f, <<ext, base>>, Cat(f, SortedNames(names))), names)

\* the sums parsed from prinseq.log
LowEnt(logf) == SumSeq([k \in DOMAIN logf |-> logf[k][1]])
MinQual(logf) == SumSeq([k \in DOMAIN logf |-> logf[k][2]])

\* lost_reads = n_reads + low_ent + min_qual - long_reads
LostReads(passing, low_ent, min_qual, long_reads) ==
    passing + low_ent + min_qual - long_reads

\* if lost_reads > 0: logging.error, warnings.warn
Warns(lost_reads) == lost_reads > 0

(* The end of the call, from the parsing of prinseq.log on: fd is the      *)
(* directory after the workers, fe after the three recombinations, ff      *)
(* after rm splitted*fastq.  rejected counts the records the workers wrote *)
(* to their bad files.                                                     *)
HunterCount(n_proc, n, max_reads_per_file, long_reads, shards, tokens, fd, fe, ff) ==
    LET workersOk == \A k \in DOMAIN tokens : Exists(fd, Splitted(tokens[k]))
        rmOk == GlobSplitted(fe) # {}
        logOk == Exists(ff, PrinseqLog)
        low_ent == IF logOk THEN LowEnt(ff[PrinseqLog]) ELSE 0
        min_qual == IF logOk THEN MinQual(ff[PrinseqLog]) ELSE 0
        goodOk == Exists(ff, GoodFastq)
        passing == IF goodOk THEN Len(ff[GoodFastq]) ELSE 0
        lost_reads == LostReads(passing, low_ent, min_qual, long_reads)
        fg == AppendLine(AppendLine(ff, <<"low_entropy">>, low_ent),
                         <<"low_quality">>, min_qual)
        fh == AppendLine(fg, <<"passing_filter">>, passing)
        Res(f, st, w) ==
            [dir |-> f, warned |-> w,
             loc |-> [n_proc |-> n_proc, n_reads |-> n, long_reads |-> long_reads,
                      max_reads_per_file |-> max_reads_per_file,
                      shards |-> shards, tokens |-> tokens,
                      low_ent |-> low_ent, min_qual |-> min_qual,
                      passing |-> passing, lost_reads |-> lost_reads,
                      rejected |-> Len(Cat(fd, SortedNames(GlobTwo(fd, "fastq", "bad")))),
                      status |-> st]]
    IN CASE RunChildRaises /\ ~workersOk -> Res(fd, "ExternalToolError", FALSE)
         [] RunChildRaises /\ ~rmOk -> Res(fe, "ExternalToolError", FALSE)
         [] ~logOk -> Res(ff, "FileNotFoundError", FALSE)
         [] ~goodOk -> Res(fg, "ExternalToolError", FALSE)
         [] OTHER -> Res(fh, "returned", Warns(lost_reads))

(* The whole call in directory contents f0: n records in the input file,   *)
(* seqtk drops the reads in short, prinseq judges by verdict and reports   *)
(* with deviation dev.  Returns the directory, hunter's locals and whether *)
(* it warned; status is "returned" or the error that ended the call.       *)
HunterCall(f0, ncpu, n, short, verdict, dev) ==
    LET n_proc == HunterNProc(ncpu)
        max_reads_per_file == MaxReadsPerFile(n, n_proc)
    IN Bind(Drop([k \in 1..n |-> k], short), LAMBDA intermediate :
       Bind(Split(intermediate, max_reads_per_file), LAMBDA shards :
       Bind(WorkerTokens(Len(shards)), LAMBDA tokens :
       Bind(Put(f0, StatsTsv, <<Line(<<"raw_reads">>, n)>>), LAMBDA fa :
       Bind(AppendLine(fa, <<"trimmed_too_short">>,
                       TrimmedTooShort(n, Len(intermediate))), LAMBDA fb :
       Bind(RenamedShards(fb, shards), LAMBDA fc :
       Bind(RunWorkers(Put(fc, PrinseqErr, <<>>), tokens, verdict, dev), LAMBDA fd :
       Bind(Recombine(fd, "fastq", "good"), LAMBDA fe1 :
       Bind(Recombine(fe1, "fastq", "bad"), LAMBDA fe2 :
       Bind(Recombine(fe2, "log", "prinseq"), LAMBDA fe :
       Bind(Del(fe, GlobSplitted(fe)), LAMBDA ff :
          HunterCount(n_proc, n, max_reads_per_file, Len(intermediate),
                      shards, tokens, fd, fe, ff))))))))))))

-----------------------------------------------------------------------------
(* victor(input_reads, contaminant)                                        *)

\* os.path.split(contaminant)[1] of every entry of contaminant_db, in order
contaminant_db == << <<"humanGRCh38">>, <<"bact1">>, <<"bact2">>, <<"bact3">>,
                     <<"fungi1">>, <<"bt", "_", "ref">> >>

\* rf_head = input_reads.split('.')[0]
Stem(name) == Tail(name)
\* sam_name = '%s_%s.sam' % (rf_head, cont_name)
SamName(input_reads, cont_name) == <<"sam">> \o Stem(input_reads) \o <<"_">> \o cont_name
ErrName(input_reads, cont_name) == <<"err">> \o Stem(input_reads) \o <<"_">> \o cont_name
\* clean_name = os.path.splitext(sam_name)[0] + '.fastq'
CleanName(sam_name) == <<"fastq">> \o Stem(sam_name)

\* mapped_reads = set(<first field of every record of the sam file>)
MappedReads(sam) == Range(sam)

\* the records whose identifier is not in mapped_reads, in input order
\* a filter that keeps the mapped reads instead of the others
CleanReadsKeepsMapped(reads, mapped_reads) == Keep(reads, mapped_reads)
CleanReads(reads, mapped_reads) == Drop(reads, mapped_reads)

\* 'matching_%s\t%d' % (cont_name, len(mapped_reads))
MatchingKey(cont_name) == <<"matching", "_">> \o cont_name
MatchingCount(mapped_reads) == Cardinality(mapped_reads)

(* The alignment records bwa writes for the reads in hit, in input order;  *)
(* with twice, the first aligned read has a second (supplementary) record. *)
Alignments(reads, hit, twice) ==
    LET aligned == Keep(reads, hit)
    IN IF twice /\ aligned # <<>> THEN <<Head(aligned)>> \o aligned ELSE aligned

VictorCall(f0, input_reads, cont_name, hit, twice) ==
    LET sam_name == SamName(input_reads, cont_name)
        clean_name == CleanName(sam_name)
        inOk == Exists(f0, input_reads)
    IN Bind(IF inOk THEN f0[input_reads] ELSE <<>>, LAMBDA reads :
       Bind(Alignments(reads, hit, twice), LAMBDA sam :
       Bind(Put(Put(f0, ErrName(input_reads, cont_name), <<>>), sam_name, sam),
            LAMBDA fa :
       Bind(MappedReads(sam), LAMBDA mapped_reads :
       Bind(AppendLine(fa, MatchingKey(cont_name), MatchingCount(mapped_reads)),
            LAMBDA fb :
       Bind(CleanReads(reads, mapped_reads), LAMBDA clean :
          [dir |-> IF inOk THEN Put(fb, clean_name, clean) ELSE f0,
           loc |-> [input_reads |-> input_reads, cont_name |-> cont_name,
                    sam_name |-> sam_name, mapped_reads |-> mapped_reads,
                    input |-> reads, clean_name |-> clean_name,
                    written |-> Len(clean),
                    status |-> IF inOk THEN "returned"
                               ELSE "ExternalToolError"]]))))))

-----------------------------------------------------------------------------
(* viral_blast(file_in, n_proc)                                            *)

HqFastq == <<"fastq", "hq", "_", "decont", "_", "reads">>
HqFasta == <<"fasta", "hq", "_", "decont", "_", "reads">>
UniqueTsv == <<"tsv", "unique">>
OrgsList == <<"tsv", "orgs", "_", "list">>
SplittedClean(t) == <<"fasta", "splitted", "_", "clean", "_">> \o t
\* one table for all the workers of the search
TmpTsvShared(t) == <<"tsv", "tmp">>
TmpTsv(t) == <<"tsv", "tmp", "_">> \o t
\* the file the worker of token t writes: -out tmp_{}.tsv
BlastWorkerWrites(t) == {TmpTsv(t)}

\* n_proc = min(os.cpu_count(), 12) in main
BlastNProc(ncpu) == Min(ncpu, BlastProcCap)

\* max_n = (tot_seqs / n_proc) + 1, formatted with %d
MaxN(tot_seqs, n_proc) == (tot_seqs \div n_proc) + 1

(* The awk script: record number n_seq (from 0) is appended to             *)
(* splitted_clean_<n_seq div max_n>.fasta; a file exists once a record has *)
(* been written to it.                                                     *)
AwkShards(f, fasta, max_n) ==
    LET pieces == Split(fasta, max_n)
        names == {SplittedClean(Dec(k - 1)) : k \in DOMAIN pieces}
    IN [n \in DOMAIN f \cup names |->
          IF n \in names
          THEN LET k == CHOOSE k \in DOMAIN pieces : n = SplittedClean(Dec(k - 1))
               IN (IF n \in DOMAIN f THEN f[n] ELSE <<>>) \o pieces[k]
          ELSE f[n]]

\* the arguments xargs substitutes for {}: seq 0 <n_proc - 1>
BlastTokens(n_proc) == SeqPlain(n_proc - 1)

(* The rows blastn reports for one query file: the rows of a query follow  *)
(* one another, queries in the order of the file.  hits gives the          *)
(* <<pident, qcovs>> rows of every read that has any.                      *)
BlastRows(queries, hits) ==
    Flatten([q \in DOMAIN queries |->
        IF queries[q] \in DOMAIN hits
        THEN [h \in DOMAIN hits[queries[q]] |->
                 <<queries[q], hits[queries[q]][h][1], hits[queries[q]][h][2]>>]
        ELSE <<>>])

RECURSIVE RunBlast(_, _, _)
RunBlast(f, tokens, hits) ==
    IF tokens = <<>> THEN f
    ELSE Bind(IF Exists(f, SplittedClean(Head(tokens)))
              THEN Put(f, TmpTsv(Head(tokens)),
                       BlastRows(f[SplittedClean(Head(tokens))], hits))
              ELSE f,
              LAMBDA f1 : RunBlast(f1, Tail(tokens), hits))

NoId == 0   \* qseqid = ''

(* The inner loop over the lines of one table: a line is written when its  *)
(* first field differs from qseqid, which then takes that field.  Returns  *)
(* the lines written and the final qseqid.                                 *)
RECURSIVE MergeLines(_, _)
MergeLines(rows, qseqid) ==
    IF rows = <<>> THEN [out |-> <<>>, qseqid |-> qseqid]
    ELSE IF Head(rows)[1] # qseqid
         THEN Bind(MergeLines(Tail(rows), Head(rows)[1]), LAMBDA rest :
                 [out |-> <<Head(rows)>> \o rest.out, qseqid |-> rest.qseqid])
         ELSE MergeLines(Tail(rows), qseqid)

\* an outer loop that sets qseqid to '' again before every table
MergeTablesResetId(tables, qseqid) ==
    Flatten([k \in DOMAIN tables |-> MergeLines(tables[k], NoId).out])
\* the outer loop over the tables; qseqid is kept from one table to the next
RECURSIVE MergeTables(_, _)
MergeTables(tables, qseqid) ==
    IF tables = <<>> THEN <<>>
    ELSE Bind(MergeLines(Head(tables), qseqid), LAMBDA m :
            m.out \o MergeTables(Tail(tables), m.qseqid))

\* a selection that also takes the hits at the thresholds
PassesThresholdsInclusive(row) ==
    row[2] >= blast_ident_threshold /\ row[3] >= blast_cov_threshold
\* hits[(hits.pident > blast_ident_threshold) & (hits.qcovs > blast_cov_threshold)]
PassesThresholds(row) == row[2] > blast_ident_threshold /\ row[3] > blast_cov_threshold
GoodHits(rows) == SelectSeq(rows, PassesThresholds)

\* unknown_reads = tot_seqs - matched_reads
UnknownReads(tot_seqs, matched_reads) == tot_seqs - matched_reads

\* the files the awk script has written
GlobSplittedClean(f) ==
    {n \in DOMAIN f : Len(n) > 5 /\ SubSeq(n, 1, 5) = SplittedClean(<<>>)}

(* The end of the call, from the merge on: fd is the directory after the   *)
(* awk script, fe after the search workers.                                *)
ViralBlastMerge(file_in, n_proc, reads, max_n, tokens, fd, fe) ==
    LET tot_seqs == Len(reads)
        blastOk == \A k \in DOMAIN tokens : Exists(fd, SplittedClean(tokens[k]))
        tmpOk == \A k \in DOMAIN tokens : Exists(fe, TmpTsv(tokens[k]))
        Res(f, st, tb, un) ==
            [dir |-> f,
             loc |-> [file_in |-> file_in, n_proc |-> n_proc, tot_seqs |-> tot_seqs,
                      max_n |-> max_n, reads |-> reads, tokens |-> tokens,
                      shards |-> [n \in GlobSplittedClean(fd) |-> fd[n]],
                      tables |-> tb, unique |-> un, status |-> st]]
    IN CASE RunChildRaises /\ ~blastOk -> Res(fe, "ExternalToolError", <<>>, <<>>)
         [] ~tmpOk -> Res(fe, "FileNotFoundError", <<>>, <<>>)
         [] OTHER ->
            Bind([k \in DOMAIN tokens |-> fe[TmpTsv(tokens[k])]], LAMBDA tables :
            Bind(MergeTables(tables, NoId), LAMBDA unique :
            Bind(Put(Del(fe, {TmpTsv(tokens[k]) : k \in DOMAIN tokens}
                             \cup {SplittedClean(tokens[k]) : k \in DOMAIN tokens}),
                     UniqueTsv, unique), LAMBDA ff :
            Bind(Len(GoodHits(unique)), LAMBDA matched_reads :
            Bind(Put(ff, OrgsList,
                     IF matched_reads = 0 THEN <<>> ELSE <<matched_reads>>),
                 LAMBDA fg :
            Bind(AppendLine(fg, <<"viral_reads">>, matched_reads), LAMBDA fh :
               Res(AppendLine(fh, <<"undetermined_reads">>,
                              UnknownReads(tot_seqs, matched_reads)),
                   "returned", tables, unique)))))))

ViralBlastCall(f0, file_in, n_proc, hits) ==
    IF ~Exists(f0, file_in)
    THEN [dir |-> Put(f0, StatsTsv, Ledger(f0)),
          loc |-> [status |-> "FileNotFoundError"]]
    ELSE Bind(f0[file_in], LAMBDA reads :
         Bind(Put(Put(Del(f0, {file_in}), HqFastq, reads), HqFasta, reads),
              LAMBDA fb :
         Bind(AppendLine(fb, <<"reads_to_blast">>, Len(reads)), LAMBDA fc :
         Bind(MaxN(Len(reads), n_proc), LAMBDA max_n :
         Bind(AwkShards(fc, reads, max_n), LAMBDA fd :
         Bind(BlastTokens(n_proc), LAMBDA tokens :
         Bind(RunBlast(fd, tokens, hits), LAMBDA fe :
            ViralBlastMerge(file_in, n_proc, reads, max_n, tokens, fd, fe))))))))

-----------------------------------------------------------------------------
(* cleaning_up()                                                           *)

ViralGz == <<"fastq.gz", "viral", "_", "reads">>
UndetGz == <<"fastq.gz", "undetermined", "_", "reads">>
UniqueGz == <<"tsv.gz", "unique">>
CramName(samfile) == <<"cram">> \o Stem(samfile)

\* ref_map, keyed by the contaminant name
ref_map == [k \in {"humanGRCh38", "bact1", "bact2", "bact3", "fungi1", "bt_ref"} |->
              CASE k = "humanGRCh38" -> "human/fasta/GRCh38.fasta.gz"
                [] k = "bact1" -> "bacteria/fasta/bact1.fasta.gz"
                [] k = "bact2" -> "bacteria/fasta/bact2.fasta.gz"
                [] k = "bact3" -> "bacteria/fasta/bact3.fasta.gz"
                [] k = "fungi1" -> "fungi/fasta/fungi1.fasta.gz"
                [] k = "bt_ref" -> "bovine/fasta/bt_ref_Bos_taurus_UMD_3.1.1.fasta.gz"]

\* cont = stem.split('_')[-1]; if cont == 'ref': cont = 'bt_ref'
ContOf(samfile) ==
    LET last == samfile[Len(samfile)]
    IN IF last = "ref" THEN "bt_ref" ELSE last

\* a selection that also takes the hits at the thresholds
ViralIdsInclusive(rows) ==
    {rows[k][1] : k \in {j \in DOMAIN rows :
                            rows[j][3] >= blast_cov_threshold
                            /\ rows[j][2] >= blast_ident_threshold}}
\* set(df[(df.qcovs > blast_cov_threshold) & (df.pident > blast_ident_threshold)].qseqid)
ViralIds(rows) ==
    {rows[k][1] : k \in {j \in DOMAIN rows :
                            rows[j][3] > blast_cov_threshold
                            /\ rows[j][2] > blast_ident_threshold}}

\* the loop over all_handle: a record goes to the undetermined stream when its
\* identifier is not in viral_ids, and to the viral stream otherwise
\* a loop that writes every record to the undetermined stream
UndetAll(reads, viral_ids) == reads
UndetReads(reads, viral_ids) == Drop(reads, viral_ids)
ViralReads(reads, viral_ids) == Keep(reads, viral_ids)

\* glob('*.sam')
GlobSam(f) == {n \in DOMAIN f : n[1] = "sam"}
\* the shell pattern good_*fastq
GlobGoodRounds(f) ==
    {n \in DOMAIN f : Len(n) >= 3 /\ n[1] = "fastq" /\ n[2] = "good" /\ n[3] = "_"}

\* the conversions handed to the pool: <<alignment file, reference, archive>>
Conversions(f) ==
    {<<n, ref_map[ContOf(n)], CramName(n)>> :
        n \in {m \in GlobSam(f) : ContOf(m) \in DOMAIN ref_map}}

\* the file a conversion writes: -o <stem>.cram
ConversionWrites(cml) == {cml[3]}

\* pool.map(single_process, cmls): every conversion writes its archive
RunConversions(f, cmls) ==
    [n \in DOMAIN f \cup {cml[3] : cml \in cmls} |->
        IF \E cml \in cmls : n = cml[3]
        THEN f[(CHOOSE cml \in cmls : n = cml[3])[1]]
        ELSE f[n]]

(* The end of the call, from the removals on: fb is the directory after    *)
(* the conversions.                                                        *)
CleaningUpRemove(rows, viral_ids, reads, viral, undet, cmls, fb) ==
    LET Res(f, st) ==
            [dir |-> f,
             loc |-> [viral_ids |-> viral_ids, viral_c |-> Len(viral),
                      undet_c |-> Len(undet), reads |-> reads,
                      viral |-> viral, undet |-> undet, cmls |-> cmls,
                      status |-> st]]
    IN Bind(Del(fb, GlobSam(fb)), LAMBDA fc :
       Bind(Del(fc, {GoodFastq}), LAMBDA fd :
       Bind(Del(fd, {BadFastq}), LAMBDA fe :
       Bind(Del(fe, {HqFasta}), LAMBDA ff :
       Bind(Del(ff, GlobGoodRounds(ff)), LAMBDA fg :
          CASE ~Exists(fc, GoodFastq) -> Res(fc, "FileNotFoundError")
            [] ~Exists(fd, BadFastq) -> Res(fd, "FileNotFoundError")
            [] ~Exists(fe, HqFasta) -> Res(fe, "FileNotFoundError")
            [] RunChildRaises /\ GlobGoodRounds(ff) = {} -> Res(ff, "ExternalToolError")
            [] OTHER -> Res(Del(Put(fg, UniqueGz, rows), {UniqueTsv}), "returned"))))))

CleaningUpCall(f0) ==
    CASE ~Exists(f0, UniqueTsv) -> [dir |-> f0, loc |-> [status |-> "FileNotFoundError"]]
      [] ~Exists(f0, HqFastq) -> [dir |-> f0, loc |-> [status |-> "FileNotFoundError"]]
      [] OTHER ->
         Bind(f0[UniqueTsv], LAMBDA rows :
         Bind(ViralIds(rows), LAMBDA viral_ids :
         Bind(f0[HqFastq], LAMBDA reads :
         Bind(UndetReads(reads, viral_ids), LAMBDA undet :
         Bind(ViralReads(reads, viral_ids), LAMBDA viral :
         Bind(Del(Put(Put(f0, ViralGz, viral), UndetGz, undet), {HqFastq}),
              LAMBDA fa :
            IF \E n \in GlobSam(fa) : ContOf(n) \notin DOMAIN ref_map
            THEN [dir |-> fa, loc |-> [status |-> "KeyError"]]
            ELSE Bind(Conversions(fa), LAMBDA cmls :
                 Bind(RunConversions(fa, cmls), LAMBDA fb :
                    CleaningUpRemove(rows, viral_ids, reads, viral, undet,
                                     cmls, fb)))))))))

-----------------------------------------------------------------------------
(* The inputs of one run.                                                  *)

\* the discovered files, by sample directory; a directory name appears for
\* the first time only after the names that sort before it
InputLists ==
    {l \in UNION {[1..n -> Dirs] : n \in 0..MaxFiles} :
        \A k \in DOMAIN l :
            DirIndex(l[k]) <= 1 + Cardinality({l[j] : j \in 1..(k - 1)})}

(* The tools' behaviour is explored in full on the reads 1..MaxMarked of a  *)
(* run on a single file; in a run on several files the filter may reject   *)
(* read 1 of each file and the other tools leave every read alone.         *)
SingleFile == Len(inputs) <= 1
\* the reads seqtk and prinseq may reject
HunterMarked == IF SingleFile THEN 1..MaxMarked ELSE {1}
\* the reads bwa may align and blastn may report
ToolMarked == IF SingleFile THEN 1..MaxMarked ELSE {}
\* deviations of the low-complexity count of the prinseq log
LogDeviations == IF SingleFile THEN {-1, 0, 1} ELSE {0}
\* whether bwa may write a second record for an aligned read
Supplementary == IF SingleFile THEN BOOLEAN ELSE {FALSE}

\* the rows blastn may report for one query: at most MaxHits
HitRows == UNION {[1..n -> Scores \X Scores] : n \in 1..MaxHits}

NoCall == [status |-> "none"]

Init ==
    /\ cpu \in CpuCounts
    /\ inputs \in InputLists
    /\ pc = "hunter"
    /\ i = 1
    /\ c = 1
    /\ s_dirs = <<>>
    /\ cont_reads = Unbound
    /\ decont_reads = Unbound
    /\ fs = [d \in Dirs |-> EmptyDir]
    /\ hun = [d \in Dirs |-> NoCall]
    /\ vic = [d \in Dirs |-> NoCall]
    /\ vb = [d \in Dirs |-> NoCall]
    /\ cu = [d \in Dirs |-> NoCall]
    /\ log = {}

-----------------------------------------------------------------------------
(* main                                                                    *)

\* a driver that catches the error of hunter and goes on with the next file
HunterSkipsFailure ==
    /\ pc = "hunter"
    /\ i <= Len(inputs)
    /\ \E n \in RawSizes, dev \in LogDeviations :
       \E short \in SUBSET (HunterMarked \cap 1..n) :
       \E verdict \in [(HunterMarked \cap 1..n) \ short -> {"good", "lc", "mq"}] :
       \E d \in {inputs[i]} :
       \E r \in {HunterCall(fs[d], cpu, n, short, verdict, dev)} :
             /\ fs' = [fs EXCEPT ![d] = r.dir]
             /\ hun' = [hun EXCEPT ![d] = r.loc]
             /\ log' = IF r.warned THEN log \cup {<<d, "lost_reads", r.loc.lost_reads>>}
                       ELSE log
             /\ s_dirs' = IF r.loc.status = "returned" THEN Append(s_dirs, d) ELSE s_dirs
             /\ i' = i + 1
             /\ pc' = pc
    /\ UNCHANGED <<cpu, inputs, c, cont_reads, decont_reads, vic, vb, cu>>

\* for fq in all_fastq_files: sd = hunter(fq); s_dirs.append(sd)
Hunter ==
    /\ pc = "hunter"
    /\ i <= Len(inputs)
    /\ \E n \in RawSizes, dev \in LogDeviations :
       \E short \in SUBSET (HunterMarked \cap 1..n) :
       \E verdict \in [(HunterMarked \cap 1..n) \ short -> {"good", "lc", "mq"}] :
       \E d \in {inputs[i]} :
       \E r \in {HunterCall(fs[d], cpu, n, short, verdict, dev)} :
             /\ fs' = [fs EXCEPT ![d] = r.dir]
             /\ hun' = [hun EXCEPT ![d] = r.loc]
             /\ log' = IF r.warned THEN log \cup {<<d, "lost_reads", r.loc.lost_reads>>}
                       ELSE log
             /\ IF r.loc.status = "returned"
                THEN /\ s_dirs' = Append(s_dirs, d)
                     /\ i' = i + 1
                     /\ pc' = pc
                ELSE /\ pc' = "aborted"
                     /\ UNCHANGED <<s_dirs, i>>
    /\ UNCHANGED <<cpu, inputs, c, cont_reads, decont_reads, vic, vb, cu>>

\* cont_reads = 'good.fastq'
HunterLoopEnd ==
    /\ pc = "hunter"
    /\ i > Len(inputs)
    /\ pc' = "victor"
    /\ cont_reads' = GoodFastq
    /\ c' = 1
    /\ i' = 1
    /\ UNCHANGED <<cpu, inputs, s_dirs, decont_reads, fs, hun, vic, vb, cu, log>>

\* decont_reads = victor(input_reads=cont_reads, contaminant=cont)
Victor ==
    /\ pc = "victor"
    /\ c <= Len(contaminant_db)
    /\ i <= Len(s_dirs)
    /\ LET d == s_dirs[i]
           reads == IF Exists(fs[d], cont_reads) THEN fs[d][cont_reads] ELSE <<>>
       IN \E hit \in SUBSET (ToolMarked \cap Range(reads)), twice \in Supplementary :
          \E r \in {VictorCall(fs[d], cont_reads, contaminant_db[c], hit, twice)} :
                /\ fs' = [fs EXCEPT ![d] = r.dir]
                /\ vic' = [vic EXCEPT ![d] = r.loc]
                /\ IF r.loc.status = "returned"
                   THEN /\ decont_reads' = r.loc.clean_name
                        /\ i' = i + 1
                        /\ pc' = pc
                   ELSE /\ pc' = "aborted"
                        /\ UNCHANGED <<decont_reads, i>>
    /\ UNCHANGED <<cpu, inputs, c, s_dirs, cont_reads, hun, vb, cu, log>>

\* a driver that hands every round the file of the first one
KeepContReads(current, returned) == current
\* cont_reads = decont_reads: the input of the next round
NextContReads(current, returned) == returned

\* the end of the loop over s_dirs of one round
VictorRoundEnd ==
    /\ pc = "victor"
    /\ c <= Len(contaminant_db)
    /\ i > Len(s_dirs)
    /\ IF decont_reads = Unbound
       THEN /\ pc' = "aborted"
            /\ UNCHANGED <<cont_reads, c, i>>
       ELSE /\ cont_reads' = NextContReads(cont_reads, decont_reads)
            /\ c' = c + 1
            /\ i' = 1
            /\ pc' = pc
    /\ UNCHANGED <<cpu, inputs, s_dirs, decont_reads, fs, hun, vic, vb, cu, log>>

\* a driver that leaves the loop over the references one round early
VictorLoopEndEarly ==
    /\ pc = "victor"
    /\ c >= Len(contaminant_db)
    /\ pc' = "blast"
    /\ i' = 1
    /\ UNCHANGED <<cpu, inputs, c, s_dirs, cont_reads, decont_reads, fs,
                   hun, vic, vb, cu, log>>

\* file_to_blast = cont_reads; n_proc = min(os.cpu_count(), 12)
VictorLoopEnd ==
    /\ pc = "victor"
    /\ c > Len(contaminant_db)
    /\ pc' = "blast"
    /\ i' = 1
    /\ UNCHANGED <<cpu, inputs, c, s_dirs, cont_reads, decont_reads, fs,
                   hun, vic, vb, cu, log>>

\* for sample_dir in s_dirs: viral_blast(file_to_blast, n_proc)
ViralBlast ==
    /\ pc = "blast"
    /\ i <= Len(s_dirs)
    /\ LET d == s_dirs[i]
           reads == IF Exists(fs[d], cont_reads) THEN fs[d][cont_reads] ELSE <<>>
       IN \E queries \in SUBSET (ToolMarked \cap Range(reads)) :
          \E hits \in [queries -> HitRows] :
          \E r \in {ViralBlastCall(fs[d], cont_reads, BlastNProc(cpu), hits)} :
                /\ fs' = [fs EXCEPT ![d] = r.dir]
                /\ vb' = [vb EXCEPT ![d] = r.loc]
                /\ IF r.loc.status = "returned"
                   THEN /\ i' = i + 1
                        /\ pc' = pc
                   ELSE /\ pc' = "aborted"
                        /\ i' = i
    /\ UNCHANGED <<cpu, inputs, c, s_dirs, cont_reads, decont_reads, hun, vic, cu, log>>

BlastLoopEnd ==
    /\ pc = "blast"
    /\ i > Len(s_dirs)
    /\ pc' = "clean"
    /\ i' = 1
    /\ UNCHANGED <<cpu, inputs, c, s_dirs, cont_reads, decont_reads, fs,
                   hun, vic, vb, cu, log>>

\* for sample_dir in s_dirs: cleaning_up()
CleaningUp ==
    /\ pc = "clean"
    /\ i <= Len(s_dirs)
    /\ \E d \in {s_dirs[i]} :
       \E r \in {CleaningUpCall(fs[d])} :
          /\ fs' = [fs EXCEPT ![d] = r.dir]
          /\ cu' = [cu EXCEPT ![d] = r.loc]
          /\ IF r.loc.status = "returned"
             THEN /\ i' = i + 1
                  /\ pc' = pc
             ELSE /\ pc' = "aborted"
                  /\ i' = i
    /\ UNCHANGED <<cpu, inputs, c, s_dirs, cont_reads, decont_reads, hun, vic, vb, log>>

\* return out_dir
CleanLoopEnd ==
    /\ pc = "clean"
    /\ i > Len(s_dirs)
    /\ pc' = "done"
    /\ UNCHANGED <<cpu, inputs, i, c, s_dirs, cont_reads, decont_reads, fs,
                   hun, vic, vb, cu, log>>

Next ==
    \/ Hunter
    \/ HunterLoopEnd
    \/ Victor
    \/ VictorRoundEnd
    \/ VictorLoopEnd
    \/ ViralBlast
    \/ BlastLoopEnd
    \/ CleaningUp
    \/ CleanLoopEnd

Spec == Init /\ [][Next]_vars

(* main is one sequential thread: while it has neither returned nor been  *)
(* stopped by an error, it runs its next statement, and every statement    *)
(* of Next moves its position <<pc, i, c>>.                                *)
MainStep ==
    /\ pc \notin {"done", "aborted"}
    /\ pc' \in {"hunter", "victor", "blast", "clean", "done", "aborted"}
    /\ i' \in 1..(MaxFiles + 1)
    /\ c' \in 1..(Len(contaminant_db) + 1)
    /\ <<pc', i', c'>> # <<pc, i, c>>

FairSpec == Spec /\ WF_<<pc, i, c>>(MainStep)

-----------------------------------------------------------------------------
(* The merge loop of viral_blast on its own, on arbitrary hit tables: the  *)
(* rows of two tables are any sequence of at most MaxRows rows, cut in two *)
(* at any place.                                                           *)

MergeDir == "A_S1"
MergeRowKinds == {1, 2} \X {<<90, 90>>, <<75, 90>>}
MergeRowSeqs ==
    UNION {[1..n -> {<<k[1], k[2][1], k[2][2]>> : k \in MergeRowKinds}] : n \in 0..MaxRows}

InitMerge ==
    /\ cpu = MaxCpu
    /\ inputs = <<MergeDir>>
    /\ pc = "merge"
    /\ i = 1
    /\ c = 1
    /\ s_dirs = <<MergeDir>>
    /\ cont_reads = Unbound
    /\ decont_reads = Unbound
    /\ fs = [d \in Dirs |-> EmptyDir]
    /\ hun = [d \in Dirs |-> NoCall]
    /\ vic = [d \in Dirs |-> NoCall]
    /\ \E rows \in MergeRowSeqs, cut \in 0..MaxRows :
          /\ cut <= Len(rows)
          /\ vb = [d \in Dirs |->
                     IF d = MergeDir
                     THEN [status |-> "merging",
                           tables |-> <<SubSeq(rows, 1, cut),
                                        SubSeq(rows, cut + 1, Len(rows))>>]
                     ELSE NoCall]
    /\ cu = [d \in Dirs |-> NoCall]
    /\ log = {}

\* for i in range(n_proc): ... bh.write(line) ...
Merge ==
    /\ pc = "merge"
    /\ pc' = "merged"
    /\ vb' = [vb EXCEPT ![MergeDir] =
                 [status |-> "merged", tables |-> vb[MergeDir].tables,
                  unique |-> MergeTables(vb[MergeDir].tables, NoId)]]
    /\ UNCHANGED <<cpu, inputs, i, c, s_dirs, cont_reads, decont_reads, fs,
                   hun, vic, cu, log>>

SpecMerge == InitMerge /\ [][Merge]_vars

-----------------------------------------------------------------------------
(* The conversions of cleaning_up and the removal of the alignment files   *)
(* on their own, with the workers of the pool running one after another   *)
(* in any order.  The directory holds the alignment files the six rounds   *)
(* have left, each with no record, one record or two.                      *)

\* the input of round k, as main chains the names victor returns
RECURSIVE ContReadsOfRound(_)
ContReadsOfRound(k) ==
    IF k = 1 THEN GoodFastq
    ELSE CleanName(SamName(ContReadsOfRound(k - 1), contaminant_db[k - 1]))
\* the alignment file round k writes
SamOfRound(k) == SamName(ContReadsOfRound(k), contaminant_db[k])

SamContents == {<<>>, <<1>>}

InitArchive ==
    /\ cpu = MaxCpu
    /\ inputs = <<MergeDir>>
    /\ pc = "submit"
    /\ i = 1
    /\ c = 1
    /\ s_dirs = <<MergeDir>>
    /\ cont_reads = Unbound
    /\ decont_reads = Unbound
    /\ \E content \in [DOMAIN contaminant_db -> SamContents] :
          fs = [d \in Dirs |->
                  IF d = MergeDir
                  THEN [n \in {SamOfRound(k) : k \in DOMAIN contaminant_db} |->
                          content[CHOOSE k \in DOMAIN contaminant_db : n = SamOfRound(k)]]
                  ELSE EmptyDir]
    /\ hun = [d \in Dirs |-> NoCall]
    /\ vic = [d \in Dirs |-> NoCall]
    /\ vb = [d \in Dirs |-> NoCall]
    /\ cu = [d \in Dirs |->
               IF d = MergeDir THEN [status |-> "running", cmls |-> {}, done |-> {}]
               ELSE NoCall]
    /\ log = {}

\* for samfile in glob.glob('*.sam'): ... cmls.append(('samtools', cml))
Submit ==
    /\ pc = "submit"
    /\ pc' = "convert"
    /\ cu' = [cu EXCEPT ![MergeDir].cmls = Conversions(fs[MergeDir])]
    /\ UNCHANGED <<cpu, inputs, i, c, s_dirs, cont_reads, decont_reads, fs,
                   hun, vic, vb, log>>

\* one worker of the pool runs single_process on one conversion
Convert ==
    /\ pc = "convert"
    /\ \E cml \in cu[MergeDir].cmls \ cu[MergeDir].done :
          /\ Exists(fs[MergeDir], cml[1])
          /\ fs' = [fs EXCEPT ![MergeDir] = RunConversions(fs[MergeDir], {cml})]
          /\ cu' = [cu EXCEPT ![MergeDir].done = cu[MergeDir].done \cup {cml}]
    /\ UNCHANGED <<cpu, inputs, pc, i, c, s_dirs, cont_reads, decont_reads,
                   hun, vic, vb, log>>

\* a pool whose map returns without waiting for the workers
PoolReturnsAtOnce ==
    /\ pc = "convert"
    /\ pc' = "remove"
    /\ UNCHANGED <<cpu, inputs, i, c, s_dirs, cont_reads, decont_reads, fs,
                   hun, vic, vb, cu, log>>

\* results = pool.map(single_process, cmls): returns when every result is in
PoolReturns ==
    /\ pc = "convert"
    /\ cu[MergeDir].done = cu[MergeDir].cmls
    /\ pc' = "remove"
    /\ UNCHANGED <<cpu, inputs, i, c, s_dirs, cont_reads, decont_reads, fs,
                   hun, vic, vb, cu, log>>

\* for samfile in glob.glob('*.sam'): os.remove(samfile)
Remove ==
    /\ pc = "remove"
    /\ pc' = "archived"
    /\ fs' = [fs EXCEPT ![MergeDir] = Del(fs[MergeDir], GlobSam(fs[MergeDir]))]
    /\ cu' = [cu EXCEPT ![MergeDir].status = "removed"]
    /\ UNCHANGED <<cpu, inputs, i, c, s_dirs, cont_reads, decont_reads,
                   hun, vic, vb, log>>

NextArchive ==
    \/ Submit
    \/ Convert
    \/ PoolReturns
    \/ Remove

SpecArchive == InitArchive /\ [][NextArchive]_vars

-----------------------------------------------------------------------------
(* Properties.                                                             *)

\* the value of the last line with this key
LastValue(ledger, key) ==
    ledger[CHOOSE k \in DOMAIN ledger :
              ledger[k][1] = key
              /\ \A j \in (k + 1)..Len(ledger) : ledger[j][1] # key][2]
Occurrences(s, x) == Cardinality({k \in DOMAIN s : s[k] = x})
NoRepeats(s) == \A j, k \in DOMAIN s : s[j] = s[k] => j = k

(* C1: while the contaminant rounds run, the last call of victor on a      *)
(* sample has left a residual file and a matching_<reference> line whose   *)
(* counts add up to the number of records of its input, and no identifier  *)
(* of the residual file is in the alignment file of that call.             *)
C1_VictorConserves ==
    \A d \in Dirs :
        (pc = "victor" /\ vic[d].status = "returned") =>
            LET residual == fs[d][vic[d].clean_name]
                mapped == Range(fs[d][vic[d].sam_name])
                matching == LastValue(Ledger(fs[d]), MatchingKey(vic[d].cont_name))
            IN /\ NoRepeats(vic[d].input)
               /\ Len(residual) + matching = Len(vic[d].input)
               /\ Range(residual) \cap mapped = {}
               /\ Range(residual) \cup mapped = Range(vic[d].input)

\* a call that mapped a read twice and another once, and left a residue
C1_Witness ==
    \E d \in Dirs :
        /\ pc = "victor"
        /\ vic[d].status = "returned"
        /\ Cardinality(Range(fs[d][vic[d].sam_name])) = 2
        /\ Len(fs[d][vic[d].sam_name]) > 2
        /\ Len(fs[d][vic[d].clean_name]) > 0

(* C2: after every round, and so when the contaminant rounds are over, the *)
(* residual file of a sample holds the records of good.fastq whose         *)
(* identifiers are in none of the alignment files written so far, in the   *)
(* order of good.fastq; the file handed to the viral search is the         *)
(* residual file of the last of the six rounds.                            *)
C2_RoundsRemoveUnion ==
    \A d \in Range(s_dirs) :
        LET allMapped == UNION {Range(fs[d][n]) : n \in GlobSam(fs[d])}
        IN /\ (/\ pc \in {"victor", "blast"}
               /\ vic[d].status = "returned"
               /\ Exists(fs[d], vic[d].clean_name)) =>
                  fs[d][vic[d].clean_name] = Drop(fs[d][GoodFastq], allMapped)
           /\ (pc = "blast" /\ Exists(fs[d], cont_reads)) =>
                  /\ Cardinality(GlobSam(fs[d])) = Len(contaminant_db)
                  /\ cont_reads = vic[d].clean_name

\* two rounds have each mapped a read of their own
C2_Witness ==
    \E d \in Range(s_dirs) :
        /\ pc = "blast"
        /\ Exists(fs[d], cont_reads)
        /\ \E m, n \in GlobSam(fs[d]) :
              /\ fs[d][m] # <<>>
              /\ fs[d][n] # <<>>
              /\ Range(fs[d][m]) \cap Range(fs[d][n]) = {}
        /\ fs[d][cont_reads] # <<>>

(* C3: cleaning_up writes every record of the decontaminated read set to   *)
(* exactly one of viral_reads.fastq.gz and undetermined_reads.fastq.gz,    *)
(* and the two counts add up to the number of records of the read set.     *)
C3_CleaningUpPartitions ==
    \A d \in Dirs :
        cu[d].status = "returned" =>
            LET viral == fs[d][ViralGz]
                undet == fs[d][UndetGz]
            IN /\ \A r \in Range(cu[d].reads) :
                     Occurrences(viral, r) + Occurrences(undet, r) = 1
               /\ Range(viral) \cup Range(undet) = Range(cu[d].reads)
               /\ Len(viral) + Len(undet) = Len(cu[d].reads)
               /\ cu[d].viral_c + cu[d].undet_c = Len(cu[d].reads)

\* both output files have records
C3_Witness ==
    \E d \in Dirs :
        /\ cu[d].status = "returned"
        /\ fs[d][ViralGz] # <<>>
        /\ fs[d][UndetGz] # <<>>

\* the query identifiers of a table
Ids(rows) == {rows[k][1] : k \in DOMAIN rows}
\* the first row of a table with this query identifier
FirstRow(rows, id) ==
    rows[CHOOSE k \in DOMAIN rows :
            rows[k][1] = id /\ \A j \in 1..(k - 1) : rows[j][1] # id]
\* the table has one row for each identifier of all, the first one of all
OneRowPerId(all, unique) ==
    /\ Ids(unique) = Ids(all)
    /\ \A id \in Ids(all) :
          /\ Cardinality({k \in DOMAIN unique : unique[k][1] = id}) = 1
          /\ \E k \in DOMAIN unique : unique[k] = FirstRow(all, id)
\* the rows of a table that do not repeat the identifier of the row before
HeadsOfRuns(rows) ==
    LET idx == {k \in DOMAIN rows : k = 1 \/ rows[k][1] # rows[k - 1][1]}
    IN [j \in 1..Cardinality(idx) |->
          rows[CHOOSE k \in idx : Cardinality({m \in idx : m < k}) = j - 1]]
\* the rows of every identifier follow each other
Grouped(rows) ==
    \A j, k \in DOMAIN rows :
        (j < k /\ rows[j][1] = rows[k][1]) => rows[j + 1][1] = rows[j][1]

(* C4 as stated: whatever the hit tables of the shards, the merged table   *)
(* has exactly one row for each query identifier of the tables, and it is  *)
(* the first row with that identifier in shard order.                      *)
C4_OneRowPerIdentifier ==
    pc = "merged" =>
        OneRowPerId(Flatten(vb[MergeDir].tables), vb[MergeDir].unique)

(* C4 amended: the merged table is made of the first row of every run of   *)
(* consecutive rows with the same query identifier in the tables taken in  *)
(* shard order, a run going on from one table into the next; it has one    *)
(* row for each identifier, the first one, when the rows of every          *)
(* identifier follow each other.                                           *)
C4_OneRowPerRun ==
    pc = "merged" =>
        LET all == Flatten(vb[MergeDir].tables)
        IN /\ vb[MergeDir].unique = HeadsOfRuns(all)
           /\ Grouped(all) => OneRowPerId(all, vb[MergeDir].unique)

\* a run goes on from the first table into the second, and an identifier
\* comes back after another one
C4_Witness ==
    /\ pc = "merged"
    /\ LET t == vb[MergeDir].tables
       IN /\ t[1] # <<>>
          /\ t[2] # <<>>
          /\ t[1][Len(t[1])][1] = t[2][1][1]
          /\ ~Grouped(Flatten(t))
          /\ Len(vb[MergeDir].unique) > Cardinality(Ids(Flatten(t)))

(* C5: the viral_reads line counts the reads whose retained hit, the first *)
(* row of the read in the hit tables, has an identity above 75 and a       *)
(* coverage above 75; the undetermined_reads line is the reads_to_blast    *)
(* line minus that count, and reads_to_blast counts the reads searched.    *)
C5_ViralReadsCount ==
    \A d \in Dirs :
        vb[d].status = "returned" =>
            LET all == Flatten(vb[d].tables)
                viral == {r \in Range(vb[d].reads) \cap Ids(all) :
                             FirstRow(all, r)[2] > 75 /\ FirstRow(all, r)[3] > 75}
                ledger == Ledger(fs[d])
            IN /\ LastValue(ledger, <<"reads_to_blast">>) = Len(vb[d].reads)
               /\ LastValue(ledger, <<"viral_reads">>) = Cardinality(viral)
               /\ LastValue(ledger, <<"undetermined_reads">>)
                    = LastValue(ledger, <<"reads_to_blast">>) - Cardinality(viral)

\* one read is counted, another has a first hit at the threshold followed by
\* a hit above it, the others have no hit
C5_Witness ==
    \E d \in Dirs :
        /\ vb[d].status = "returned"
        /\ LastValue(Ledger(fs[d]), <<"viral_reads">>) = 1
        /\ LET all == Flatten(vb[d].tables)
           IN \E r \in Ids(all) :
                 /\ FirstRow(all, r)[2] = 75
                 /\ \E k \in DOMAIN all :
                       all[k][1] = r /\ all[k][2] > 75 /\ all[k][3] > 75
        /\ LastValue(Ledger(fs[d]), <<"undetermined_reads">>) > 1

\* the keys of a complete ledger, in the order of the stages
StageKeys ==
    << <<"raw_reads">>, <<"trimmed_too_short">>, <<"low_entropy">>,
       <<"low_quality">>, <<"passing_filter">> >>
    \o [k \in DOMAIN contaminant_db |-> <<"matching", "_">> \o contaminant_db[k]]
    \o << <<"reads_to_blast">>, <<"viral_reads">>, <<"undetermined_reads">> >>
\* the identifiers in the archive of the alignments against one reference
ArchivedIds(f, cont_name) ==
    UNION {Range(f[n]) : n \in {m \in DOMAIN f :
                                    /\ m[1] = "cram"
                                    /\ Len(m) > Len(cont_name)
                                    /\ SubSeq(m, Len(m) - Len(cont_name) + 1, Len(m))
                                         = cont_name}}

(* C6: when the driver has finished, the ledger of every sample has each   *)
(* key once, in the order raw_reads, trimmed_too_short, low_entropy,       *)
(* low_quality, passing_filter, matching_<reference> in the order of the   *)
(* contaminant list, reads_to_blast, viral_reads, undetermined_reads, and  *)
(* every line still has the value its stage wrote.                         *)
C6_LedgerOrder ==
    pc = "done" =>
        \A d \in Range(s_dirs) :
            LET ledger == Ledger(fs[d])
            IN /\ Keys(ledger) = StageKeys
               /\ ledger[1][2] = hun[d].n_reads
               /\ ledger[2][2] = hun[d].n_reads - hun[d].long_reads
               /\ ledger[3][2] = hun[d].low_ent
               /\ ledger[4][2] = hun[d].min_qual
               /\ ledger[5][2] = hun[d].passing
               /\ \A k \in DOMAIN contaminant_db :
                     ledger[5 + k][2]
                       = Cardinality(ArchivedIds(fs[d], contaminant_db[k]))
               /\ ledger[12][2] = vb[d].tot_seqs
               /\ ledger[13][2] = Len(GoodHits(vb[d].unique))
               /\ ledger[14][2] = vb[d].tot_seqs - ledger[13][2]

\* a finished run in which the last reference of the list has matched a read
C6_Witness ==
    /\ pc = "done"
    /\ \E d \in Range(s_dirs) :
          /\ HasKey(Ledger(fs[d]), <<"matching", "_", "bt", "_", "ref">>)
          /\ Value(Ledger(fs[d]), <<"matching", "_", "bt", "_", "ref">>) = 1
          /\ Value(Ledger(fs[d]), <<"low_entropy">>) > 0

(* C7 as stated: every count hunter writes is non-negative, and raw_reads  *)
(* is the sum of trimmed_too_short, low_entropy, low_quality and           *)
(* passing_filter.                                                         *)
C7_CategoriesSumToRaw ==
    \A d \in Dirs :
        hun[d].status = "returned" =>
            LET ledger == Ledger(fs[d])
            IN /\ \A k \in 1..5 : ledger[k][2] >= 0
               /\ Value(ledger, <<"raw_reads">>)
                    = Value(ledger, <<"trimmed_too_short">>)
                      + Value(ledger, <<"low_entropy">>)
                      + Value(ledger, <<"low_quality">>)
                      + Value(ledger, <<"passing_filter">>)

(* C7 amended: every count hunter writes is non-negative; raw_reads is the *)
(* sum of trimmed_too_short, passing_filter and the number of records the  *)
(* filter rejected; it is the sum of the four categories exactly when      *)
(* low_entropy and low_quality, which are read from the filter's log, add  *)
(* up to the number of records rejected.                                   *)
C7_RawReadsAccounted ==
    \A d \in Dirs :
        hun[d].status = "returned" =>
            LET ledger == Ledger(fs[d])
                raw == Value(ledger, <<"raw_reads">>)
                short == Value(ledger, <<"trimmed_too_short">>)
                low_ent == Value(ledger, <<"low_entropy">>)
                low_qual == Value(ledger, <<"low_quality">>)
                passing == Value(ledger, <<"passing_filter">>)
            IN /\ \A k \in 1..5 : ledger[k][2] >= 0
               /\ raw = short + passing + hun[d].rejected
               /\ (low_ent + low_qual = hun[d].rejected)
                    <=> (raw = short + low_ent + low_qual + passing)

\* reads of every fate, and a log that does not count the rejected reads
C7_Witness ==
    \E d \in Dirs :
        /\ hun[d].status = "returned"
        /\ Value(Ledger(fs[d]), <<"trimmed_too_short">>) > 0
        /\ Value(Ledger(fs[d]), <<"low_quality">>) > 0
        /\ Value(Ledger(fs[d]), <<"passing_filter">>) > 0
        /\ hun[d].low_ent + hun[d].min_qual # hun[d].rejected

(* C8 as stated: hunter works with min(cpu count, 16) shards, the bound on *)
(* the records of a shard is the number of reads left by the trimming      *)
(* divided by the shard count, rounded up, and no shard has more records.  *)
C8_BoundIsCeilOfSurviving ==
    \A d \in Dirs :
        hun[d].status # "none" =>
            /\ hun[d].n_proc = Min(cpu, 16)
            /\ hun[d].max_reads_per_file = CeilDiv(hun[d].long_reads, hun[d].n_proc)
            /\ \A k \in DOMAIN hun[d].shards :
                  Len(hun[d].shards[k]) <= CeilDiv(hun[d].long_reads, hun[d].n_proc)

(* C8 amended: hunter aims at min(cpu count, 16) shards; the bound on the  *)
(* records of a shard is the number of raw reads, counted before the       *)
(* trimming, divided by that number and rounded down, plus one; no shard   *)
(* has more records than the bound, the shards are as many as the reads    *)
(* left by the trimming divided by the bound, rounded up, which is at most *)
(* min(cpu count, 16), and every read left is in exactly one shard.        *)
C8_BoundIsFloorOfRawPlusOne ==
    \A d \in Dirs :
        hun[d].status # "none" =>
            LET all == Flatten(hun[d].shards)
            IN /\ hun[d].n_proc = Min(cpu, 16)
               /\ hun[d].max_reads_per_file = (hun[d].n_reads \div hun[d].n_proc) + 1
               /\ \A k \in DOMAIN hun[d].shards :
                     /\ Len(hun[d].shards[k]) <= hun[d].max_reads_per_file
                     /\ Len(hun[d].shards[k]) > 0
               /\ Len(hun[d].shards) <= hun[d].n_proc
               /\ Len(hun[d].shards)
                    = CeilDiv(hun[d].long_reads, hun[d].max_reads_per_file)
               /\ Len(all) = hun[d].long_reads
               /\ NoRepeats(all)

\* more than 16 processors, reads lost to the trimming, fewer shards than
\* workers, and a shard above the rounded-up share of the reads left
C8_Witness ==
    \E d \in Dirs :
        /\ hun[d].status # "none"
        /\ cpu > 16
        /\ hun[d].long_reads < hun[d].n_reads
        /\ Len(hun[d].shards) < hun[d].n_proc
        /\ \E k \in DOMAIN hun[d].shards :
              Len(hun[d].shards[k]) > CeilDiv(hun[d].long_reads, hun[d].n_proc)

(* C9: viral_blast splits the sequences into n_proc shard files, none with *)
(* more than the number of sequences divided by n_proc, rounded up, and    *)
(* every sequence is in exactly one shard file.                            *)
C9_NShardsOfCeil ==
    \A d \in Dirs :
        vb[d].status \in {"returned", "ExternalToolError"} =>
            /\ Cardinality(DOMAIN vb[d].shards) = vb[d].n_proc
            /\ \A n \in DOMAIN vb[d].shards :
                  Len(vb[d].shards[n]) <= CeilDiv(vb[d].tot_seqs, vb[d].n_proc)
            /\ \A r \in Range(vb[d].reads) :
                  Cardinality({n \in DOMAIN vb[d].shards :
                                  r \in Range(vb[d].shards[n])}) = 1

(* C10: whenever the split leaves 1 to 16 shards, every renamed shard file *)
(* of hunter is the input of exactly one filter worker, the good and bad   *)
(* files of every worker are matched by the patterns good??.fastq and      *)
(* bad??.fastq, and hunter returns with the records of all shards in       *)
(* good.fastq and bad.fastq together.                                      *)
C10_FanOutFanIn ==
    \A d \in Dirs :
        (hun[d].status # "none" /\ Len(hun[d].shards) \in 1..16) =>
            /\ \A k \in DOMAIN hun[d].shards :
                  Cardinality({j \in DOMAIN hun[d].tokens :
                                  Splitted(hun[d].tokens[j]) = Splitted(Fmt02d(k - 1))}) = 1
            /\ \A j \in DOMAIN hun[d].tokens :
                  /\ GlobTwo(Put(EmptyDir, GoodShard(hun[d].tokens[j]), <<>>),
                             "fastq", "good") # {}
                  /\ GlobTwo(Put(EmptyDir, BadShard(hun[d].tokens[j]), <<>>),
                             "fastq", "bad") # {}
            /\ hun[d].status = "returned"
            /\ hun[d].passing + hun[d].rejected = Len(Flatten(hun[d].shards))

(* C11: whenever passing_filter + low_entropy + low_quality differs from   *)
(* the number of reads that entered the filter, in either direction,       *)
(* hunter has logged a lost-reads warning, and it has returned with        *)
(* passing_filter written to the ledger with the value it counted.         *)
C11_WarnsOnAnyMismatch ==
    \A d \in Dirs :
        hun[d].status = "returned" =>
            /\ (hun[d].passing + hun[d].low_ent + hun[d].min_qual # hun[d].long_reads)
                  => \E e \in log : e[1] = d /\ e[2] = "lost_reads"
            /\ Value(Ledger(fs[d]), <<"passing_filter">>) = hun[d].passing

\* the names of the residual file and of the alignment file of round k
RECURSIVE RoundOutput(_)
RoundOutput(k) ==
    IF k = 0 THEN <<"fastq", "good">>
    ELSE RoundOutput(k - 1) \o <<"_">> \o contaminant_db[k]
RoundSam(k) == <<"sam">> \o Tail(RoundOutput(k))

(* C12: every call of victor is made between the last call of hunter and   *)
(* the first call of viral_blast; the call number c on the sample number i  *)
(* of the list uses the c-th reference and reads the residual file of      *)
(* round c - 1 in the directory of that sample; at that moment round c is  *)
(* over for the samples before i, round c - 1 is over for all samples and  *)
(* round c has not begun for the samples from i on; and every call of      *)
(* viral_blast finds the alignment files of all rounds in the directories  *)
(* of all samples.                                                         *)
C12_DriverOrdering ==
    [][/\ (vic' # vic) =>
            LET d == s_dirs[i]
                earlier == {s_dirs[j] : j \in 1..(i - 1)}
                later == {s_dirs[j] : j \in i..Len(s_dirs)}
            IN /\ pc = "victor"
               /\ Len(s_dirs) = Len(inputs)
               /\ \A e \in Dirs : vb[e].status = "none" /\ cu[e].status = "none"
               /\ \A e \in Dirs \ {d} : vic'[e] = vic[e]
               /\ vic'[d].status = "returned"
               /\ vic'[d].cont_name = contaminant_db[c]
               /\ vic'[d].input_reads = RoundOutput(c - 1)
               /\ vic'[d].input = fs[d][RoundOutput(c - 1)]
               /\ vic'[d].clean_name = RoundOutput(c)
               /\ \A e \in earlier : Exists(fs[e], RoundOutput(c))
               /\ \A e \in later : \A k \in 1..(c - 1) :
                     Exists(fs[e], RoundSam(k)) /\ Exists(fs[e], RoundOutput(k))
               /\ \A e \in later \ earlier : \A k \in c..Len(contaminant_db) :
                     ~Exists(fs[e], RoundSam(k))
       /\ (vb' # vb) =>
            /\ pc = "blast"
            /\ \A e \in Range(s_dirs) : \A k \in DOMAIN contaminant_db :
                  Exists(fs[e], RoundSam(k))
      ]_vars

\* the second round is over for the first of two samples and not begun for
\* the second
C12_Witness ==
    /\ pc = "victor"
    /\ c = 2
    /\ i = 2
    /\ Len(s_dirs) = 2
    /\ s_dirs[1] # s_dirs[2]
    /\ vic[s_dirs[1]].status = "returned"
    /\ vic[s_dirs[1]].cont_name = contaminant_db[2]
    /\ vic[s_dirs[2]].status = "returned"
    /\ vic[s_dirs[2]].cont_name = contaminant_db[1]

\* the reference sequence file of the k-th reference of the list
SequenceFile(k) ==
    CASE k = 1 -> "human/fasta/GRCh38.fasta.gz"
      [] k = 2 -> "bacteria/fasta/bact1.fasta.gz"
      [] k = 3 -> "bacteria/fasta/bact2.fasta.gz"
      [] k = 4 -> "bacteria/fasta/bact3.fasta.gz"
      [] k = 5 -> "fungi/fasta/fungi1.fasta.gz"
      [] k = 6 -> "bovine/fasta/bt_ref_Bos_taurus_UMD_3.1.1.fasta.gz"

(* C13: once the conversions are submitted there is exactly one for the    *)
(* alignment file of every round, with the sequence file of the reference  *)
(* of that round, and none for anything else; and whenever an alignment    *)
(* file is deleted every conversion has completed and has left an archive  *)
(* with the records of its alignment file.                                 *)
C13_ArchiveBarrier ==
    /\ [](pc # "submit" =>
            /\ Cardinality(cu[MergeDir].cmls) = Len(contaminant_db)
            /\ \A k \in DOMAIN contaminant_db :
                  Cardinality({cml \in cu[MergeDir].cmls : cml[1] = RoundSam(k)}) = 1
            /\ \A cml \in cu[MergeDir].cmls :
                  \E k \in DOMAIN contaminant_db :
                      cml[1] = RoundSam(k) /\ cml[2] = SequenceFile(k))
    /\ [][\A n \in GlobSam(fs[MergeDir]) :
            ~Exists(fs'[MergeDir], n) =>
                /\ cu[MergeDir].done = cu[MergeDir].cmls
                /\ \A cml \in cu[MergeDir].cmls :
                      /\ Exists(fs[MergeDir], cml[3])
                      /\ fs[MergeDir][cml[3]] = fs[MergeDir][cml[1]]
                      /\ Exists(fs'[MergeDir], cml[3])
         ]_vars

\* the alignment files are gone and the archives of the first and of the
\* last round hold a record
C13_Witness ==
    /\ pc = "archived"
    /\ GlobSam(fs[MergeDir]) = {}
    /\ \E m, n \in DOMAIN fs[MergeDir] :
          /\ m[1] = "cram" /\ n[1] = "cram"
          /\ m[Len(m)] = "humanGRCh38" /\ n[Len(n)] = "ref"
          /\ fs[MergeDir][m] # <<>> /\ fs[MergeDir][n] # <<>>

C16_ShardFilesMatchIndices ==
    \A d \in Dirs :
        "shards" \in DOMAIN vb[d] =>
            /\ vb[d].status = "returned"
            /\ DOMAIN vb[d].shards
                 = {<<"fasta", "splitted", "_", "clean", "_">> \o vb[d].tokens[k] :
                       k \in DOMAIN vb[d].tokens}
            /\ Len(vb[d].tokens) = vb[d].n_proc

(* C17: once cleaning_up has written its two outputs, the viral_reads line *)
(* of the ledger is the number of records of the viral output and the      *)
(* undetermined_reads line the number of records of the undetermined one.  *)
C17_LedgerAgreesWithArchives ==
    \A d \in Dirs :
        "viral_c" \in DOMAIN cu[d] =>
            /\ LastValue(Ledger(fs[d]), <<"viral_reads">>) = cu[d].viral_c
            /\ LastValue(Ledger(fs[d]), <<"undetermined_reads">>) = cu[d].undet_c
            /\ cu[d].viral_c = Len(fs[d][ViralGz])
            /\ cu[d].undet_c = Len(fs[d][UndetGz])

\* a viral read, and a read whose hit is at the threshold
C17_Witness ==
    \E d \in Dirs :
        /\ "viral_c" \in DOMAIN cu[d]
        /\ cu[d].viral_c > 0
        /\ cu[d].undet_c > 0
        /\ \E k \in DOMAIN vb[d].unique :
              vb[d].unique[k][2] = 75 \/ vb[d].unique[k][3] = 75

(* C18: when cleaning_up is about to run on a sample, every file it        *)
(* removes without a test is in the sample's directory: good.fastq,        *)
(* bad.fastq, hq_decont_reads.fasta, hq_decont_reads.fastq and at least    *)
(* one good_* round output.                                                *)
C18_RemovedFilesExist ==
    (pc = "clean" /\ i <= Len(s_dirs)) =>
        /\ Exists(fs[s_dirs[i]], GoodFastq)
        /\ Exists(fs[s_dirs[i]], BadFastq)
        /\ Exists(fs[s_dirs[i]], HqFasta)
        /\ Exists(fs[s_dirs[i]], HqFastq)
        /\ GlobGoodRounds(fs[s_dirs[i]]) # {}

\* an external tool has failed in some call of the run
ToolFailed ==
    \E d \in Dirs :
        "ExternalToolError" \in {hun[d].status, vic[d].status,
                                 vb[d].status, cu[d].status}

(* C19: for every list of discovered input files, the empty one included,  *)
(* main comes to its terminal state, all samples filtered, decontaminated, *)
(* searched and archived, and returns; a run stopped by the failure of an  *)
(* external tool is the one kind of run left aside.                        *)
C19_MainReturns == <>(pc = "done" \/ ToolFailed)

=============================================================================
